---- MODULE Spec2Model ----
(***************************************************************************)
(* The authoritative game server of the sticker-man arena game: the       *)
(* socket.io handlers of server.js (room registry, join/leave, ready and   *)
(* auto-start, move, attack, dropped items) as one state machine.  Every   *)
(* handler runs to completion (single-threaded event loop), so each        *)
(* handler and each setTimeout callback is one action.                     *)
(*                                                                         *)
(* Fields the server stores but never reads back (name, color, velocity,   *)
(* createdAt, isJumping/isGrounded, which never change on the server) are  *)
(* left out of the Player and GameRoom records.                            *)
(***************************************************************************)
EXTENDS Integers, Sequences, FiniteSets, Bags, TLC

\* ---------------------------------------------------------------- GAME_CONFIG
canvasWidth == 800
canvasHeight == 600
playerWidth == 40
playerHeight == 60
attackRange == 60
attackDamage == 10
attackCooldown == 500
maxPlayers == 2
maxHealth == 100
\* the radii of checkForAutoPickup and pickupItem, and the attack's knockback
autoPickupRadius == 50
pickupRadius == 45
knockbackX == 20
\* the setTimeout delays: auto-start, isAttacking reset, default speed-boost duration
autoStartDelay == 2000
attackResetDelay == 300
speedBoostDuration == 10000

\* ---------------------------------------------------------------- bounds
\* connection ids (socket.id) and the codes generateRoomId can return
Sockets == {"s1", "s2", "s3"}
RoomIds == {"A", "B"}
\* number of GameRoom objects createRoom may allocate
MaxRooms == 1
\* Date.now() starts at StartTime and advances by at most MaxTicks cooldowns
MaxTicks == 1
StartTime == 2 * attackCooldown
\* copies of one setTimeout callback that may be pending at once
MaxPending == 1
\* joinRoom events the server accepts in a run
MaxJoins == 2

NULL == "null"
NoTime == -1
NoRef == 0

VARIABLES
  heap,       \* every GameRoom object allocated so far (index = object identity)
  gameRooms,  \* the Map roomId -> GameRoom, as <<id, ref>> pairs in insertion order
  connected,  \* sockets that have not yet disconnected
  timers,     \* pending setTimeout callbacks (a bag)
  now,        \* Date.now()
  joins,      \* joinRoom events accepted so far (Player objects created)
  received,   \* the event the last handler was called for
  emitted     \* what the last handler emitted, in order

vars == <<heap, gameRooms, connected, timers, now, joins, received, emitted>>

\* ---------------------------------------------------------------- emissions
\* socket.emit(ev, ...)
ToSocket(ev, s, arg) == [ev |-> ev, mode |-> "socket", dest |-> s, arg |-> arg]
\* socket.to(roomId).emit(ev, ...): the room's members except the sender
ToOthers(ev, id, arg) == [ev |-> ev, mode |-> "others", dest |-> id, arg |-> arg]
\* io.to(roomId).emit(ev, ...)
ToRoom(ev, id, arg) == [ev |-> ev, mode |-> "room", dest |-> id, arg |-> arg]

\* ---------------------------------------------------------------- items
NoItem == [id |-> "none", type |-> "none", position |-> [x |-> 0, y |-> 0],
           attack |-> 0, defense |-> 0, heal |-> 0, speedBoost |-> 0,
           duration |-> 0, range |-> 0]

\* room.droppedItems is a JS object keyed by item id: keys in insertion order
HasItem(room, itemId) ==
  \E i \in 1..Len(room.droppedItems) : room.droppedItems[i].id = itemId
IIdx(room, itemId) ==
  CHOOSE i \in 1..Len(room.droppedItems) : room.droppedItems[i].id = itemId
GetItem(room, itemId) == room.droppedItems[IIdx(room, itemId)]
PutItem(room, item) ==
  IF HasItem(room, item.id)
  THEN [room EXCEPT !.droppedItems[IIdx(room, item.id)] = item]
  ELSE [room EXCEPT !.droppedItems = Append(@, item)]
DeleteItem(room, itemId) ==
  [room EXCEPT !.droppedItems = SelectSeq(@, LAMBDA it : it.id # itemId)]
ItemIds(room) == {room.droppedItems[i].id : i \in 1..Len(room.droppedItems)}

\* (px - ix)^2 + (py - iy)^2, the square of the distance the handlers compute
Dist2(p, q) == (p.x - q.x) * (p.x - q.x) + (p.y - q.y) * (p.y - q.y)
Abs(n) == IF n < 0 THEN -n ELSE n
Max(a, b) == IF a > b THEN a ELSE b
Min(a, b) == IF a < b THEN a ELSE b
\* JavaScript's (v || d) on a number
OrElse(v, d) == IF v = 0 THEN d ELSE v

\* ---------------------------------------------------------------- players
createPlayer(socketId, playerIndex) ==
  [id |-> socketId,
   position |-> [x |-> IF playerIndex = 0 THEN canvasWidth \div 4
                       ELSE (3 * canvasWidth) \div 4,
                 y |-> canvasHeight - 80],
   health |-> 100,
   isAttacking |-> FALSE,
   facingDirection |-> IF playerIndex = 0 THEN "right" ELSE "left",
   isAlive |-> TRUE,
   lastAttackTime |-> 0,
   equippedWeapon |-> NoItem,
   equippedShield |-> NoItem,
   attackDamage |-> attackDamage,
   attackRange |-> attackRange,
   defense |-> 0,
   moveSpeedMultiplier |-> 100]

\* room.players is a JS object: keys in insertion order
HasPlayer(room, s) == \E i \in 1..Len(room.players) : room.players[i].id = s
PIdx(room, s) == CHOOSE i \in 1..Len(room.players) : room.players[i].id = s
GetPlayer(room, s) == room.players[PIdx(room, s)]
PutPlayer(room, p) ==
  IF HasPlayer(room, p.id)
  THEN [room EXCEPT !.players[PIdx(room, p.id)] = p]
  ELSE [room EXCEPT !.players = Append(@, p)]
DeletePlayer(room, s) ==
  [room EXCEPT !.players = SelectSeq(@, LAMBDA p : p.id # s)]
PlayerIds(room) == {room.players[i].id : i \in 1..Len(room.players)}

\* ---------------------------------------------------------------- registry
newRoom(roomId) ==
  [id |-> roomId,
   players |-> <<>>,
   gameState |-> "waiting",
   currentPlayers |-> 0,
   gameStartTime |-> NoTime,
   winner |-> NULL,
   droppedItems |-> <<>>]

\* gameRooms.get(roomId): the room object's reference, NoRef when absent
MapGet(roomId) ==
  IF \E i \in 1..Len(gameRooms) : gameRooms[i][1] = roomId
  THEN gameRooms[CHOOSE i \in 1..Len(gameRooms) : gameRooms[i][1] = roomId][2]
  ELSE NoRef
\* gameRooms.set(roomId, ref): an existing key keeps its place
MapSet(roomId, ref) ==
  IF MapGet(roomId) # NoRef
  THEN [i \in 1..Len(gameRooms) |->
          IF gameRooms[i][1] = roomId THEN <<roomId, ref>> ELSE gameRooms[i]]
  ELSE Append(gameRooms, <<roomId, ref>>)
MapDelete(roomId) == SelectSeq(gameRooms, LAMBDA e : e[1] # roomId)
Registered(ref) == \E i \in 1..Len(gameRooms) : gameRooms[i][2] = ref

\* findPlayerRoom: the first registered room, in Map order, that holds the player
findPlayerRoom(playerId) ==
  IF \E i \in 1..Len(gameRooms) : HasPlayer(heap[gameRooms[i][2]], playerId)
  THEN LET i == CHOOSE k \in 1..Len(gameRooms) :
                  /\ HasPlayer(heap[gameRooms[k][2]], playerId)
                  /\ \A j \in 1..(k - 1) : ~HasPlayer(heap[gameRooms[j][2]], playerId)
       IN gameRooms[i][2]
  ELSE NoRef

\* ---------------------------------------------------------------- timers
StartTimer(ref) == [kind |-> "start", room |-> ref, sock |-> NULL]
ClearTimer(ref, s) == [kind |-> "clear", room |-> ref, sock |-> s]
\* the speed reset also records when it was set and for how long
SpeedTimer(ref, s, at, delay) ==
  [kind |-> "speed", room |-> ref, sock |-> s, at |-> at, delay |-> delay]
Delay(kind) ==
  IF kind = "start" THEN autoStartDelay
  ELSE IF kind = "clear" THEN attackResetDelay
  ELSE speedBoostDuration
Schedule(t) == timers (+) SetToBag({t})
CanSchedule(t) == CopiesIn(t, timers) < MaxPending

\* ---------------------------------------------------------------- handlers
Init ==
  /\ heap = <<>>
  /\ gameRooms = <<>>
  /\ connected = Sockets
  /\ timers = EmptyBag
  /\ now = StartTime
  /\ joins = 0
  /\ received = [ev |-> "none", sock |-> NULL]
  /\ emitted = <<>>

\* socket.on('createRoom')
CreateRoom(s, roomId) ==
  /\ received' = [ev |-> "createRoom", sock |-> s, room |-> roomId]
  /\ s \in connected
  /\ heap' = Append(heap, newRoom(roomId))
  /\ gameRooms' = MapSet(roomId, Len(heap) + 1)
  /\ emitted' = <<ToSocket("roomCreated", s, <<roomId>>)>>
  /\ UNCHANGED <<connected, timers, now, joins>>

\* a capacity test that lets a full room take one more player
roomFullAbove(room) == room.currentPlayers > maxPlayers

\* a capacity test that never turns a join away
roomNeverFull(room) == FALSE

\* joinRoom's capacity guard
roomFull(room) == room.currentPlayers >= maxPlayers

\* socket.on('joinRoom')
JoinRoom(s, roomId) ==
  /\ received' = [ev |-> "joinRoom", sock |-> s, room |-> roomId]
  /\ s \in connected
  /\ LET ref == MapGet(roomId) IN
     IF ref = NoRef
     THEN /\ emitted' = <<ToSocket("roomNotFound", s, <<>>)>>
          /\ UNCHANGED <<heap, gameRooms, connected, timers, now, joins>>
     ELSE IF roomFull(heap[ref])
     THEN /\ emitted' = <<ToSocket("roomFull", s, <<>>)>>
          /\ UNCHANGED <<heap, gameRooms, connected, timers, now, joins>>
     ELSE LET room == heap[ref]
              playerIndex == Len(room.players)
              player == createPlayer(s, playerIndex)
              joined == [PutPlayer(room, player) EXCEPT !.currentPlayers = @ + 1]
              full == joined.currentPlayers = maxPlayers
              final == IF full THEN [joined EXCEPT !.gameState = "ready"] ELSE joined
          IN /\ full => CanSchedule(StartTimer(ref))
             /\ heap' = [heap EXCEPT ![ref] = final]
             /\ timers' = IF full THEN Schedule(StartTimer(ref)) ELSE timers
             /\ emitted' = <<ToSocket("roomJoined", s, <<roomId>>),
                             ToOthers("playerJoined", roomId, <<s>>)>>
                           \o (IF full
                               THEN <<ToRoom("gameStateChanged", roomId, <<"ready">>)>>
                               ELSE <<>>)
             /\ joins' = joins + 1
             /\ UNCHANGED <<gameRooms, connected, now>>

\* a callback body that stamps the start time and forgets the state
startStampOnly(room) == [room EXCEPT !.gameStartTime = now]

\* the writes of the auto-start callback
startGame(room) == [room EXCEPT !.gameState = "in_progress", !.gameStartTime = now]

\* the auto-start callback scheduled by joinRoom: it holds the room object
AutoStart(ref) ==
  /\ received' = [ev |-> "autoStart", sock |-> NULL]
  /\ BagIn(StartTimer(ref), timers)
  /\ timers' = timers (-) SetToBag({StartTimer(ref)})
  /\ LET started == startGame(heap[ref])
     IN /\ heap' = [heap EXCEPT ![ref] = started]
        /\ emitted' = <<ToRoom("gameStarted", started.id, <<>>),
                        ToRoom("gameUpdate", started.id, <<>>)>>
  /\ UNCHANGED <<gameRooms, connected, now, joins>>

\* socket.on('playerReady')
PlayerReady(s) ==
  /\ received' = [ev |-> "playerReady", sock |-> s]
  /\ s \in connected
  /\ LET ref == findPlayerRoom(s) IN
     IF ref = NoRef
     THEN /\ emitted' = <<>>
          /\ UNCHANGED <<heap, gameRooms, connected, timers, now, joins>>
     ELSE IF heap[ref].currentPlayers = maxPlayers /\ heap[ref].gameState = "ready"
     THEN LET started == [heap[ref] EXCEPT !.gameState = "in_progress",
                                           !.gameStartTime = now]
          IN /\ heap' = [heap EXCEPT ![ref] = started]
             /\ emitted' = <<ToRoom("gameStarted", started.id, <<>>),
                             ToRoom("gameUpdate", started.id, <<>>)>>
             /\ UNCHANGED <<gameRooms, connected, timers, now, joins>>
     ELSE /\ emitted' = <<>>
          /\ UNCHANGED <<heap, gameRooms, connected, timers, now, joins>>

\* handlePlayerDisconnect(playerId): the new heap, registry and emissions
handlePlayerDisconnect(playerId) ==
  LET ref == findPlayerRoom(playerId) IN
  IF ref = NoRef
  THEN [heap |-> heap, gameRooms |-> gameRooms, emitted |-> <<>>]
  ELSE LET left == [DeletePlayer(heap[ref], playerId) EXCEPT !.currentPlayers = @ - 1]
           notify == <<ToRoom("playerLeft", left.id, <<playerId>>),
                       ToRoom("playerDisconnected", left.id, <<playerId>>)>>
       IN IF left.currentPlayers = 0
          THEN [heap |-> [heap EXCEPT ![ref] = left],
                gameRooms |-> MapDelete(left.id),
                emitted |-> notify]
          ELSE IF left.gameState = "in_progress"
          THEN LET remainingPlayer == IF Len(left.players) > 0
                                      THEN left.players[1].id ELSE NULL
                   ended == [left EXCEPT !.gameState = "finished",
                                         !.winner = remainingPlayer]
               IN [heap |-> [heap EXCEPT ![ref] = ended],
                   gameRooms |-> gameRooms,
                   emitted |-> notify \o <<ToRoom("gameEnded", left.id, <<remainingPlayer>>)>>]
          ELSE [heap |-> [heap EXCEPT ![ref] = left],
                gameRooms |-> gameRooms,
                emitted |-> notify]

\* socket.on('leaveRoom')
LeaveRoom(s) ==
  /\ received' = [ev |-> "leaveRoom", sock |-> s]
  /\ s \in connected
  /\ LET r == handlePlayerDisconnect(s) IN
     /\ heap' = r.heap
     /\ gameRooms' = r.gameRooms
     /\ emitted' = r.emitted
  /\ UNCHANGED <<connected, timers, now, joins>>

\* socket.on('disconnect'): the connection is gone afterwards
Disconnect(s) ==
  /\ received' = [ev |-> "disconnect", sock |-> s]
  /\ s \in connected
  /\ LET r == handlePlayerDisconnect(s) IN
     /\ heap' = r.heap
     /\ gameRooms' = r.gameRooms
     /\ emitted' = r.emitted
  /\ connected' = connected \ {s}
  /\ UNCHANGED <<timers, now, joins>>

\* an early return that still pushes a gameUpdate
IgnoredButAnnounced ==
  /\ emitted' = <<ToRoom("gameUpdate", NULL, <<>>)>>
  /\ UNCHANGED <<heap, gameRooms, connected, timers, now, joins>>

\* an event the handler drops: nothing changes and nothing is emitted
Ignored ==
  /\ emitted' = <<>>
  /\ UNCHANGED <<heap, gameRooms, connected, timers, now, joins>>

\* a state guard that turns events away only while the room waits for players
onlyWaitingIgnored(ref) == ref = NoRef \/ heap[ref].gameState = "waiting"

\* the first guard of playerMove and playerAttack: no room, or no game in progress
gameNotRunning(ref) == ref = NoRef \/ heap[ref].gameState # "in_progress"

\* a cooldown test that lets an attack through after half the cooldown
onCooldownHalved(attacker) == now - attacker.lastAttackTime < attackCooldown \div 2

\* playerAttack's cooldown guard
onCooldown(attacker) == now - attacker.lastAttackTime < attackCooldown

\* a weapon effect that drops the base damage
equipWeaponNoBase(player, item) ==
  [player EXCEPT !.equippedWeapon = item,
                 !.attackDamage = item.attack,
                 !.attackRange = IF item.range # 0 THEN item.range ELSE @]

\* the effect pickupItem and checkForAutoPickup apply for a weapon
equipWeapon(player, item) ==
  [player EXCEPT !.equippedWeapon = item,
                 !.attackDamage = attackDamage + item.attack,
                 !.attackRange = IF item.range # 0 THEN item.range ELSE @]

\* checkForAutoPickup's forEach over the entries of droppedItems, from entry i on;
\* r = [room, emitted]
RECURSIVE autoPickupLoop(_, _, _, _)
autoPickupLoop(r, playerId, entries, i) ==
  IF i > Len(entries) THEN r
  ELSE LET item == entries[i]
           player == GetPlayer(r.room, playerId)
       IN IF Dist2(player.position, item.position) <= autoPickupRadius * autoPickupRadius
          THEN LET removed == DeleteItem(r.room, item.id)
                   after == IF item.type = "weapon"
                            THEN PutPlayer(removed, equipWeapon(player, item))
                            ELSE removed
                   ems == (IF item.type = "weapon"
                           THEN <<ToRoom("itemEquipped", after.id, <<playerId, item.id>>),
                                  ToRoom("itemPickedUp", after.id, <<playerId, item.id>>)>>
                           ELSE <<>>)
                          \o <<ToRoom("gameUpdate", after.id, <<>>)>>
               IN autoPickupLoop([room |-> after, emitted |-> r.emitted \o ems],
                                 playerId, entries, i + 1)
          ELSE autoPickupLoop(r, playerId, entries, i + 1)

checkForAutoPickup(playerId, room) ==
  IF ~HasPlayer(room, playerId) \/ ~GetPlayer(room, playerId).isAlive
  THEN [room |-> room, emitted |-> <<>>]
  ELSE autoPickupLoop([room |-> room, emitted |-> <<>>], playerId, room.droppedItems, 1)

\* socket.on('playerMove'): position and velocity.x are the client's
PlayerMove(s, position, vx) ==
  /\ received' = [ev |-> "playerMove", sock |-> s]
  /\ s \in connected
  /\ LET ref == findPlayerRoom(s) IN
     IF gameNotRunning(ref)
     THEN Ignored
     ELSE IF ~GetPlayer(heap[ref], s).isAlive
     THEN Ignored
     ELSE LET room == heap[ref]
              player == GetPlayer(room, s)
              facing == IF vx > 0 THEN "right"
                        ELSE IF vx < 0 THEN "left" ELSE player.facingDirection
              x == IF position.x < playerWidth \div 2 THEN playerWidth \div 2
                   ELSE IF position.x > canvasWidth - playerWidth \div 2
                   THEN canvasWidth - playerWidth \div 2
                   ELSE position.x
              moved == [player EXCEPT !.position = [x |-> x, y |-> position.y],
                                      !.facingDirection = facing]
              r == checkForAutoPickup(s, PutPlayer(room, moved))
          IN /\ heap' = [heap EXCEPT ![ref] = r.room]
             /\ emitted' = r.emitted
                           \o <<ToOthers("playerMoved", room.id, <<s, moved.position>>),
                                ToRoom("gameUpdate", room.id, <<>>)>>
             /\ UNCHANGED <<gameRooms, connected, timers, now, joins>>

checkAttackHit(attacker, target) ==
  /\ Abs(attacker.position.x - target.position.x)
       <= OrElse(attacker.attackRange, attackRange)
  /\ Abs(attacker.position.y - target.position.y) <= playerHeight

applyDamage(player, damage) ==
  LET newHealth == Max(0, player.health - damage)
  IN [player EXCEPT !.health = newHealth, !.isAlive = newHealth > 0]

\* a win check that calls every ended game a draw
checkGameEndDraw(players) ==
  LET alivePlayers == SelectSeq(players, LAMBDA p : p.isAlive)
  IN IF Len(alivePlayers) <= 1 THEN "draw" ELSE NULL

\* a win check that names the first player when nobody is left alive
checkGameEndFirst(players) ==
  LET alivePlayers == SelectSeq(players, LAMBDA p : p.isAlive)
  IN IF Len(alivePlayers) <= 1
     THEN IF Len(alivePlayers) = 1 THEN alivePlayers[1].id
          ELSE IF Len(players) > 0 THEN players[1].id ELSE "draw"
     ELSE NULL

\* the winner's id, 'draw', or NULL while two or more players are alive
checkGameEnd(players) ==
  LET alivePlayers == SelectSeq(players, LAMBDA p : p.isAlive)
  IN IF Len(alivePlayers) <= 1
     THEN IF Len(alivePlayers) = 1 THEN alivePlayers[1].id ELSE "draw"
     ELSE NULL

\* a damage rule that knows neither weapons nor shields
flatDamage(attacker, target) == attackDamage

\* the damage of a hit: the attacker's damage less the target's defense, at least 1
effectiveDamage(attacker, target) ==
  Max(1, OrElse(attacker.attackDamage, attackDamage) - target.defense)

\* a knockback that spares a target the hit has killed
knockbackSurvivors(attacker, target) ==
  IF target.isAlive
  THEN [target EXCEPT !.position.x =
          @ + (IF attacker.position.x < target.position.x THEN 1 ELSE -1) * knockbackX]
  ELSE target

\* the knockback of a hit: the target's position.x moves away from the attacker
knockback(attacker, target) ==
  LET direction == IF attacker.position.x < target.position.x THEN 1 ELSE -1
  IN [target EXCEPT !.position.x = @ + direction * knockbackX]

\* playerAttack's forEach over the entries of room.players, from entry i on;
\* r = [room, emitted, targetHit]
RECURSIVE attackLoop(_, _, _, _)
attackLoop(r, attackerId, ids, i) ==
  IF i > Len(ids) THEN r
  ELSE LET playerId == ids[i]
           player == GetPlayer(r.room, playerId)
           attacker == GetPlayer(r.room, attackerId)
       IN IF playerId # attackerId /\ player.isAlive /\ checkAttackHit(attacker, player)
          THEN LET damage == effectiveDamage(attacker, player)
                   damagedPlayer == applyDamage(player, damage)
                   knocked == knockback(attacker, damagedPlayer)
                   after == PutPlayer(r.room, knocked)
               IN attackLoop([room |-> after,
                              emitted |-> Append(r.emitted,
                                 ToRoom("playerHealthChanged", after.id,
                                        <<playerId, damagedPlayer.health>>)),
                              targetHit |-> playerId],
                             attackerId, ids, i + 1)
          ELSE attackLoop(r, attackerId, ids, i + 1)

\* socket.on('playerAttack')
PlayerAttack(s) ==
  /\ received' = [ev |-> "playerAttack", sock |-> s]
  /\ s \in connected
  /\ LET ref == findPlayerRoom(s) IN
     IF gameNotRunning(ref)
     THEN Ignored
     ELSE IF ~GetPlayer(heap[ref], s).isAlive
     THEN Ignored
     ELSE IF onCooldown(GetPlayer(heap[ref], s))
     THEN Ignored
     ELSE LET room == heap[ref]
              attacker == [GetPlayer(room, s) EXCEPT !.isAttacking = TRUE,
                                                     !.lastAttackTime = now]
              armed == PutPlayer(room, attacker)
              ids == [i \in 1..Len(armed.players) |-> armed.players[i].id]
              r == attackLoop([room |-> armed, emitted |-> <<>>, targetHit |-> NULL],
                              s, ids, 1)
              winner == checkGameEnd(r.room.players)
              final == IF winner # NULL
                       THEN [r.room EXCEPT !.gameState = "finished", !.winner = winner]
                       ELSE r.room
          IN /\ CanSchedule(ClearTimer(ref, s))
             /\ heap' = [heap EXCEPT ![ref] = final]
             /\ timers' = Schedule(ClearTimer(ref, s))
             /\ emitted' = r.emitted
                           \o <<ToRoom("playerAttacked", room.id, <<s, r.targetHit>>)>>
                           \o (IF winner # NULL
                               THEN <<ToRoom("gameEnded", room.id, <<winner>>)>>
                               ELSE <<>>)
                           \o <<ToRoom("gameUpdate", room.id, <<>>)>>
             /\ UNCHANGED <<gameRooms, connected, now, joins>>

\* a reset that leaves the flag alone once the game is over
clearAttackWhilePlaying(room, s) ==
  IF HasPlayer(room, s) /\ room.gameState = "in_progress"
  THEN PutPlayer(room, [GetPlayer(room, s) EXCEPT !.isAttacking = FALSE])
  ELSE room

\* the body of the callback playerAttack schedules
clearAttack(room, s) ==
  IF HasPlayer(room, s)
  THEN PutPlayer(room, [GetPlayer(room, s) EXCEPT !.isAttacking = FALSE])
  ELSE room

\* the callback playerAttack schedules: it holds the room object and socket.id
ClearAttack(ref, s) ==
  /\ received' = [ev |-> "attackReset", sock |-> s]
  /\ BagIn(ClearTimer(ref, s), timers)
  /\ timers' = timers (-) SetToBag({ClearTimer(ref, s)})
  /\ heap' = [heap EXCEPT ![ref] = clearAttack(@, s)]
  /\ emitted' = <<>>
  /\ UNCHANGED <<gameRooms, connected, now, joins>>

\* socket.on('itemDropped')
ItemDropped(s, item) ==
  /\ received' = [ev |-> "itemDropped", sock |-> s]
  /\ s \in connected
  /\ LET ref == findPlayerRoom(s) IN
     IF ref = NoRef
     THEN Ignored
     ELSE LET after == PutItem(heap[ref], item)
          IN /\ heap' = [heap EXCEPT ![ref] = after]
             /\ emitted' = <<ToRoom("itemDropped", after.id, <<item.id>>),
                             ToRoom("gameUpdate", after.id, <<>>)>>
             /\ UNCHANGED <<gameRooms, connected, timers, now, joins>>

\* socket.on('pickupItem')
PickupItem(s, itemId) ==
  /\ received' = [ev |-> "pickupItem", sock |-> s, item |-> itemId]
  /\ s \in connected
  /\ LET ref == findPlayerRoom(s) IN
     IF ref = NoRef \/ ~HasItem(heap[ref], itemId)
     THEN Ignored
     ELSE IF ~GetPlayer(heap[ref], s).isAlive
     THEN Ignored
     ELSE IF Dist2(GetPlayer(heap[ref], s).position, GetItem(heap[ref], itemId).position)
               > pickupRadius * pickupRadius
     THEN Ignored
     ELSE LET room == heap[ref]
              item == GetItem(room, itemId)
              player == GetPlayer(room, s)
              removed == DeleteItem(room, itemId)
              healed == IF item.heal # 0
                        THEN [player EXCEPT
                                !.health = Min(maxHealth, player.health + item.heal)]
                        ELSE player
              boosted == IF item.speedBoost # 0
                         THEN [healed EXCEPT !.moveSpeedMultiplier = item.speedBoost]
                         ELSE healed
              after == IF item.type = "weapon" THEN equipWeapon(player, item)
                       ELSE IF item.type = "shield"
                       THEN [player EXCEPT !.equippedShield = item,
                                           !.defense = item.defense]
                       ELSE IF item.type = "consumable" THEN boosted
                       ELSE player
              final == PutPlayer(removed, after)
              boost == item.type = "consumable" /\ item.speedBoost # 0
              reset == SpeedTimer(ref, s, now, OrElse(item.duration, speedBoostDuration))
          IN /\ boost => CanSchedule(reset)
             /\ heap' = [heap EXCEPT ![ref] = final]
             /\ timers' = IF boost THEN Schedule(reset) ELSE timers
             /\ emitted' =
                  (IF item.type \in {"weapon", "shield"}
                   THEN <<ToRoom("itemEquipped", room.id, <<s, itemId>>)>>
                   ELSE IF item.type = "consumable" /\ item.heal # 0
                   THEN <<ToRoom("playerHealthChanged", room.id, <<s, after.health>>)>>
                   ELSE <<>>)
                  \o <<ToRoom("itemPickedUp", room.id, <<s, itemId>>),
                       ToRoom("gameUpdate", room.id, <<>>)>>
             /\ UNCHANGED <<gameRooms, connected, now, joins>>

\* the pending speed resets of one player in one room
SpeedTimers(ref, s) ==
  {t \in BagToSet(timers) : t.kind = "speed" /\ t.room = ref /\ t.sock = s}

\* the body of the callback
speedReset(room, s) ==
  IF HasPlayer(room, s)
  THEN PutPlayer(room, [GetPlayer(room, s) EXCEPT !.moveSpeedMultiplier = 100])
  ELSE room

\* the callback a speed consumable schedules; of two resets the one that is
\* due first runs first
SpeedReset(ref, s) ==
  /\ received' = [ev |-> "speedReset", sock |-> s]
  /\ \E t \in SpeedTimers(ref, s) :
       /\ \A u \in SpeedTimers(ref, s) : t.at + t.delay <= u.at + u.delay
       /\ timers' = timers (-) SetToBag({t})
       /\ heap' = [heap EXCEPT ![ref] = speedReset(@, s)]
  /\ emitted' = <<>>
  /\ UNCHANGED <<gameRooms, connected, now, joins>>

\* socket.on('equipItem')
EquipItem(s, itemId, slot) ==
  /\ received' = [ev |-> "equipItem", sock |-> s, item |-> itemId, slot |-> slot]
  /\ s \in connected
  /\ LET ref == findPlayerRoom(s) IN
     IF ref = NoRef \/ ~HasItem(heap[ref], itemId)
     THEN Ignored
     ELSE IF ~GetPlayer(heap[ref], s).isAlive
     THEN Ignored
     ELSE LET room == heap[ref]
              item == GetItem(room, itemId)
              player == GetPlayer(room, s)
          IN IF slot = "weapon" /\ item.type = "weapon"
             THEN LET final == DeleteItem(PutPlayer(room,
                                 [player EXCEPT !.equippedWeapon = item,
                                                !.attackDamage = attackDamage + item.attack]),
                                 itemId)
                  IN /\ heap' = [heap EXCEPT ![ref] = final]
                     /\ emitted' = <<ToRoom("itemEquipped", room.id, <<s, itemId>>),
                                     ToRoom("gameUpdate", room.id, <<>>)>>
                     /\ UNCHANGED <<gameRooms, connected, timers, now, joins>>
             ELSE IF slot = "shield" /\ item.type = "shield"
             THEN LET final == DeleteItem(PutPlayer(room,
                                 [player EXCEPT !.equippedShield = item,
                                                !.defense = item.defense]),
                                 itemId)
                  IN /\ heap' = [heap EXCEPT ![ref] = final]
                     /\ emitted' = <<ToRoom("itemEquipped", room.id, <<s, itemId>>),
                                     ToRoom("gameUpdate", room.id, <<>>)>>
                     /\ UNCHANGED <<gameRooms, connected, timers, now, joins>>
             ELSE Ignored

\* d ms pass: a callback whose delay is at most d has fired by then
Tick(d) ==
  /\ now + d <= StartTime + MaxTicks * attackCooldown
  /\ \A t \in BagToSet(timers) : Delay(t.kind) > d
  /\ now' = now + d
  /\ received' = [ev |-> "tick", sock |-> NULL]
  /\ emitted' = <<>>
  /\ UNCHANGED <<heap, gameRooms, connected, timers, joins>>

\* ---------------------------------------------------------------- GameLogic
\* The TypeScript socket route keeps the same rooms and calls GameLogic, which
\* returns new Player objects instead of writing into the stored ones.
checkCollision(rect1, rect2) ==
  /\ rect1.x < rect2.x + rect2.width
  /\ rect1.x + rect1.width > rect2.x
  /\ rect1.y < rect2.y + rect2.height
  /\ rect1.y + rect1.height > rect2.y

getAttackHitbox(player) ==
  LET hitboxWidth == attackRange
      hitboxX == IF player.facingDirection = "right"
                 THEN player.position.x + playerWidth \div 2
                 ELSE player.position.x - hitboxWidth - playerWidth \div 2
  IN [x |-> hitboxX, y |-> player.position.y,
      width |-> hitboxWidth, height |-> playerHeight]

getTargetHitbox(target) ==
  [x |-> target.position.x - playerWidth \div 2, y |-> target.position.y,
   width |-> playerWidth, height |-> playerHeight]

\* GameLogic.checkAttackHit
attackHits(attacker, target) ==
  IF ~attacker.isAttacking \/ ~target.isAlive
  THEN FALSE
  ELSE checkCollision(getAttackHitbox(attacker), getTargetHitbox(target))

canPlayerAttack(player, currentTime) ==
  player.isAlive /\ currentTime - player.lastAttackTime >= attackCooldown

updatePlayerAttack(player, isAttacking, currentTime) ==
  [player EXCEPT !.isAttacking = isAttacking,
                 !.lastAttackTime = IF isAttacking THEN currentTime ELSE @]

\* the default knockbackForce and the upward knockbackY
knockbackForce == 5
knockbackY == 2
calculateKnockback(attacker, target) ==
  LET direction == IF attacker.position.x < target.position.x THEN 1 ELSE -1
  IN [x |-> target.position.x + direction * knockbackForce,
      y |-> target.position.y + knockbackY]

constrainPlayerToBounds(player) ==
  [player EXCEPT !.position =
     [x |-> Max(playerWidth \div 2, Min(canvasWidth - playerWidth \div 2, player.position.x)),
      y |-> Max(0, Min(canvasHeight, player.position.y))]]

generateSpawnPosition(playerIndex) ==
  [x |-> IF playerIndex = 0 THEN canvasWidth \div 5 ELSE (4 * canvasWidth) \div 5,
   y |-> canvasHeight \div 4]

\* ---------------------------------------------------------------- socket route
\* route.ts: createRoom, playerReady, the auto-start callback, the attack
\* reset callback and handlePlayerDisconnect write what server.js's write;
\* joinRoom, playerMove and playerAttack go through GameLogic.
routeCreatePlayer(socketId, playerIndex) ==
  [createPlayer(socketId, playerIndex) EXCEPT
     !.position = generateSpawnPosition(playerIndex)]

\* route.ts socket.on('joinRoom')
RouteJoinRoom(s, roomId) ==
  /\ received' = [ev |-> "joinRoom", sock |-> s, room |-> roomId]
  /\ s \in connected
  /\ LET ref == MapGet(roomId) IN
     IF ref = NoRef
     THEN /\ emitted' = <<ToSocket("roomNotFound", s, <<>>)>>
          /\ UNCHANGED <<heap, gameRooms, connected, timers, now, joins>>
     ELSE IF roomFull(heap[ref])
     THEN /\ emitted' = <<ToSocket("roomFull", s, <<>>)>>
          /\ UNCHANGED <<heap, gameRooms, connected, timers, now, joins>>
     ELSE LET room == heap[ref]
              playerIndex == Len(room.players)
              player == routeCreatePlayer(s, playerIndex)
              joined == [PutPlayer(room, player) EXCEPT !.currentPlayers = @ + 1]
              full == joined.currentPlayers = maxPlayers
              final == IF full THEN [joined EXCEPT !.gameState = "ready"] ELSE joined
          IN /\ full => CanSchedule(StartTimer(ref))
             /\ heap' = [heap EXCEPT ![ref] = final]
             /\ timers' = IF full THEN Schedule(StartTimer(ref)) ELSE timers
             /\ emitted' = <<ToSocket("roomJoined", s, <<roomId>>),
                             ToOthers("playerJoined", roomId, <<s>>)>>
                           \o (IF full
                               THEN <<ToRoom("gameStateChanged", roomId, <<"ready">>)>>
                               ELSE <<>>)
             /\ joins' = joins + 1
             /\ UNCHANGED <<gameRooms, connected, now>>

\* route.ts socket.on('playerMove')
RouteMove(s, position, vx) ==
  /\ received' = [ev |-> "playerMove", sock |-> s]
  /\ s \in connected
  /\ LET ref == findPlayerRoom(s) IN
     IF gameNotRunning(ref)
     THEN Ignored
     ELSE IF ~GetPlayer(heap[ref], s).isAlive
     THEN Ignored
     ELSE LET room == heap[ref]
              player == GetPlayer(room, s)
              facing == IF vx > 0 THEN "right"
                        ELSE IF vx < 0 THEN "left" ELSE player.facingDirection
              updatedPlayer == constrainPlayerToBounds(
                                 [player EXCEPT !.position = position,
                                                !.facingDirection = facing])
          IN /\ heap' = [heap EXCEPT ![ref] = PutPlayer(room, updatedPlayer)]
             /\ emitted' = <<ToOthers("playerMoved", room.id, <<s, position>>),
                             ToRoom("gameUpdate", room.id, <<>>)>>
             /\ UNCHANGED <<gameRooms, connected, timers, now, joins>>

\* route.ts playerAttack's forEach, from entry i on; attacker is the Player
\* object the handler read before it stored the updated copy
RECURSIVE routeAttackLoop(_, _, _, _)
routeAttackLoop(r, attacker, ids, i) ==
  IF i > Len(ids) THEN r
  ELSE LET playerId == ids[i]
           player == GetPlayer(r.room, playerId)
       IN IF playerId # attacker.id /\ player.isAlive /\ attackHits(attacker, player)
          THEN LET damagedPlayer == applyDamage(player, attackDamage)
                   knockbackPosition == calculateKnockback(attacker, player)
                   after == PutPlayer(r.room,
                              [damagedPlayer EXCEPT !.position = knockbackPosition])
               IN routeAttackLoop([room |-> after,
                                   emitted |-> Append(r.emitted,
                                      ToRoom("playerHealthChanged", after.id,
                                             <<playerId, damagedPlayer.health>>)),
                                   targetHit |-> playerId],
                                  attacker, ids, i + 1)
          ELSE routeAttackLoop(r, attacker, ids, i + 1)

\* route.ts socket.on('playerAttack')
RouteAttack(s) ==
  /\ received' = [ev |-> "playerAttack", sock |-> s]
  /\ s \in connected
  /\ LET ref == findPlayerRoom(s) IN
     IF gameNotRunning(ref)
     THEN Ignored
     ELSE IF ~GetPlayer(heap[ref], s).isAlive
     THEN Ignored
     ELSE IF ~canPlayerAttack(GetPlayer(heap[ref], s), now)
     THEN Ignored
     ELSE LET room == heap[ref]
              attacker == GetPlayer(room, s)
              armed == PutPlayer(room, updatePlayerAttack(attacker, TRUE, now))
              ids == [i \in 1..Len(armed.players) |-> armed.players[i].id]
              r == routeAttackLoop([room |-> armed, emitted |-> <<>>, targetHit |-> NULL],
                                   attacker, ids, 1)
              winner == checkGameEnd(r.room.players)
              final == IF winner # NULL
                       THEN [r.room EXCEPT !.gameState = "finished", !.winner = winner]
                       ELSE r.room
          IN /\ CanSchedule(ClearTimer(ref, s))
             /\ heap' = [heap EXCEPT ![ref] = final]
             /\ timers' = Schedule(ClearTimer(ref, s))
             /\ emitted' = r.emitted
                           \o <<ToRoom("playerAttacked", room.id, <<s, r.targetHit>>)>>
                           \o (IF winner # NULL
                               THEN <<ToRoom("gameEnded", room.id, <<winner>>)>>
                               ELSE <<>>)
                           \o <<ToRoom("gameUpdate", room.id, <<>>)>>
             /\ UNCHANGED <<gameRooms, connected, now, joins>>

\* ---------------------------------------------------------------- inputs
\* joinRoom(roomId) would pass both guards and create a player
JoinAccepted(roomId) ==
  /\ MapGet(roomId) # NoRef
  /\ heap[MapGet(roomId)].currentPlayers < maxPlayers

\* The lobby: three connections, two room codes, no fighting.
NextLobby ==
  \/ \E s \in Sockets, id \in RoomIds : Len(heap) < MaxRooms /\ CreateRoom(s, id)
  \/ \E s \in Sockets, id \in RoomIds :
        (JoinAccepted(id) => joins < MaxJoins) /\ JoinRoom(s, id)
  \/ \E ref \in 1..Len(heap) : AutoStart(ref)
  \/ \E s \in Sockets : PlayerReady(s)
  \/ \E s \in Sockets : LeaveRoom(s)
  \/ \E s \in Sockets : Disconnect(s)

SpecLobby == Init /\ [][NextLobby]_vars

\* The duel: two connections in one room that fight; nobody leaves.
Duelists == {"s1", "s2"}
DuelRoom == "A"
MovePositions == {[x |-> 150, y |-> 520]}
MoveVelocities == {-5}
\* the Dragon Slayer of config/weapons.ts, dropped where the first player spawns
Sword == [id |-> "sword", type |-> "weapon", position |-> [x |-> 200, y |-> 520],
          attack |-> 50, defense |-> 0, heal |-> 0, speedBoost |-> 0,
          duration |-> 0, range |-> 90]
\* s1 drops and picks up by request, s2 moves (and picks up by walking)
Movers == {"s2"}
Droppers == {"s1"}
Pickers == {"s1"}

Next ==
  \/ heap = <<>> /\ CreateRoom("s1", DuelRoom)
  \/ \E s \in Duelists : JoinRoom(s, DuelRoom)
  \/ \E ref \in 1..Len(heap) : AutoStart(ref)
  \/ \E s \in Duelists : PlayerReady(s)
  \/ \E s \in Movers, pos \in MovePositions, vx \in MoveVelocities : PlayerMove(s, pos, vx)
  \/ \E s \in Duelists : PlayerAttack(s)
  \/ \E ref \in 1..Len(heap), s \in Duelists : ClearAttack(ref, s)
  \/ \E s \in Droppers : ItemDropped(s, Sword)
  \/ \E s \in Pickers : PickupItem(s, Sword.id)
  \/ Tick(attackCooldown)

Spec == Init /\ [][Next]_vars

\* The duel without items, on a finer clock: half a cooldown or a whole one passes.
TickSteps == {attackCooldown \div 2, attackCooldown}

NextCooldown ==
  \/ heap = <<>> /\ CreateRoom("s1", DuelRoom)
  \/ \E s \in Duelists : JoinRoom(s, DuelRoom)
  \/ \E ref \in 1..Len(heap) : AutoStart(ref)
  \/ \E s \in Duelists : PlayerReady(s)
  \/ \E s \in Movers, pos \in MovePositions, vx \in MoveVelocities : PlayerMove(s, pos, vx)
  \/ \E s \in Duelists : PlayerAttack(s)
  \/ \E ref \in 1..Len(heap), s \in Duelists : ClearAttack(ref, s)
  \/ \E d \in TickSteps : Tick(d)

SpecCooldown == Init /\ [][NextCooldown]_vars

\* The duel with consumables: the heal value is whatever the client sent.
Potion == [id |-> "potion", type |-> "consumable", position |-> [x |-> 200, y |-> 520],
           attack |-> 0, defense |-> 0, heal |-> 30, speedBoost |-> 0,
           duration |-> 0, range |-> 0]
Poison == [id |-> "poison", type |-> "consumable", position |-> [x |-> 200, y |-> 520],
           attack |-> 0, defense |-> 0, heal |-> -150, speedBoost |-> 0,
           duration |-> 0, range |-> 0]
Consumables == {Potion, Poison}

\* Health that a poison has driven below zero is not driven further down.
StillPositive(s) ==
  findPlayerRoom(s) # NoRef => GetPlayer(heap[findPlayerRoom(s)], s).health > 0

NextItems ==
  \/ heap = <<>> /\ CreateRoom("s1", DuelRoom)
  \/ \E s \in Duelists : JoinRoom(s, DuelRoom)
  \/ \E ref \in 1..Len(heap) : AutoStart(ref)
  \/ \E s \in Duelists : PlayerReady(s)
  \/ \E s \in Movers, pos \in MovePositions, vx \in MoveVelocities : PlayerMove(s, pos, vx)
  \/ \E s \in Duelists : PlayerAttack(s)
  \/ \E ref \in 1..Len(heap), s \in Duelists : ClearAttack(ref, s)
  \/ \E s \in Droppers, item \in Consumables : ItemDropped(s, item)
  \/ \E s \in Pickers, item \in Consumables : StillPositive(s) /\ PickupItem(s, item.id)

SpecItems == Init /\ [][NextItems]_vars

\* The arena with one item of each category on the ground at a weapon spawn
\* point, 50 px from the first player's start: inside the auto-pickup radius,
\* outside the manual one.
Blade == [id |-> "blade", type |-> "weapon", position |-> [x |-> 150, y |-> 520],
          attack |-> 25, defense |-> 0, heal |-> 0, speedBoost |-> 0,
          duration |-> 0, range |-> 70]
Buckler == [id |-> "buckler", type |-> "shield", position |-> [x |-> 150, y |-> 520],
            attack |-> 0, defense |-> 5, heal |-> 0, speedBoost |-> 0,
            duration |-> 0, range |-> 0]
Elixir == [id |-> "elixir", type |-> "consumable", position |-> [x |-> 150, y |-> 520],
           attack |-> 0, defense |-> 0, heal |-> 30, speedBoost |-> 150,
           duration |-> 0, range |-> 0]
Gear == {Blade, Buckler, Elixir}
\* ids a pickupItem or equipItem may name: those of Gear and one nobody dropped
GearIds == {"blade", "buckler", "elixir", "ghost"}
Slots == {"weapon", "shield"}
GearPositions == {[x |-> 150, y |-> 520], [x |-> 200, y |-> 520]}

NextGear ==
  \/ heap = <<>> /\ CreateRoom("s1", DuelRoom)
  \/ \E s \in Duelists : JoinRoom(s, DuelRoom)
  \/ \E ref \in 1..Len(heap) : AutoStart(ref)
  \/ \E s \in Duelists : PlayerReady(s)
  \/ \E s \in Pickers, pos \in GearPositions, vx \in MoveVelocities : PlayerMove(s, pos, vx)
  \/ \E s \in Droppers, item \in Gear : ItemDropped(s, item)
  \/ \E s \in Pickers, itemId \in GearIds : PickupItem(s, itemId)
  \/ \E s \in Pickers, itemId \in GearIds, slot \in Slots : EquipItem(s, itemId, slot)
  \/ \E ref \in 1..Len(heap), s \in Pickers : SpeedReset(ref, s)

SpecGear == Init /\ [][NextGear]_vars

\* The arena with two weapons on the ground 50 px apart, both within the
\* auto-pickup radius of a player standing on either.
Arms == {Blade, Sword}

NextArms ==
  \/ heap = <<>> /\ CreateRoom("s1", DuelRoom)
  \/ \E s \in Duelists : JoinRoom(s, DuelRoom)
  \/ \E ref \in 1..Len(heap) : AutoStart(ref)
  \/ \E s \in Duelists : PlayerReady(s)
  \/ \E s \in Pickers, pos \in GearPositions, vx \in MoveVelocities : PlayerMove(s, pos, vx)
  \/ \E s \in Droppers, item \in Arms : ItemDropped(s, item)

SpecArms == Init /\ [][NextArms]_vars

\* The duel with a sword at the attacker's start and a shield at the target's:
\* the attacker closes in to 40 px and strikes, a cooldown apart.
Bulwark == [id |-> "bulwark", type |-> "shield", position |-> [x |-> 600, y |-> 520],
            attack |-> 0, defense |-> 15, heal |-> 0, speedBoost |-> 0,
            duration |-> 0, range |-> 0]
Armory == {Sword, Bulwark}
Strikers == {"s1"}
Targets == {"s2"}
StrikePositions == {[x |-> 560, y |-> 520]}

NextArmor ==
  \/ heap = <<>> /\ CreateRoom("s1", DuelRoom)
  \/ \E s \in Duelists : JoinRoom(s, DuelRoom)
  \/ \E ref \in 1..Len(heap) : AutoStart(ref)
  \/ \E s \in Duelists : PlayerReady(s)
  \/ \E s \in Strikers, pos \in StrikePositions : PlayerMove(s, pos, 5)
  \/ \E s \in Strikers : PlayerAttack(s)
  \/ \E ref \in 1..Len(heap), s \in Strikers : ClearAttack(ref, s)
  \/ \E s \in Targets, item \in Armory : ItemDropped(s, item)
  \/ \E s \in Duelists, item \in Armory : PickupItem(s, item.id)
  \/ Tick(attackCooldown)

SpecArmor == Init /\ [][NextArmor]_vars

\* The arena with two speed consumables where the first player starts; half a
\* second may pass between the two pickups.
Haste == [id |-> "haste", type |-> "consumable", position |-> [x |-> 200, y |-> 520],
          attack |-> 0, defense |-> 0, heal |-> 0, speedBoost |-> 150,
          duration |-> 0, range |-> 0]
Rush == [id |-> "rush", type |-> "consumable", position |-> [x |-> 200, y |-> 520],
         attack |-> 0, defense |-> 0, heal |-> 0, speedBoost |-> 200,
         duration |-> 8000, range |-> 0]
Boosts == {Haste, Rush}

NextBoost ==
  \/ heap = <<>> /\ CreateRoom("s1", DuelRoom)
  \/ \E s \in Duelists : JoinRoom(s, DuelRoom)
  \/ \E ref \in 1..Len(heap) : AutoStart(ref)
  \/ \E s \in Duelists : PlayerReady(s)
  \/ \E s \in Droppers, item \in Boosts : ItemDropped(s, item)
  \/ \E s \in Pickers, item \in Boosts : PickupItem(s, item.id)
  \/ \E ref \in 1..Len(heap), s \in Pickers : SpeedReset(ref, s)
  \/ Tick(attackCooldown)

SpecBoost == Init /\ [][NextBoost]_vars

\* The duel at the right wall: the clients report positions 40 px inside the
\* wall and 10 px beyond its limit for a player's centre.
EdgePositions == {[x |-> 740, y |-> 520], [x |-> 790, y |-> 520]}
EdgeVelocities == {5}

NextEdge ==
  \/ heap = <<>> /\ CreateRoom("s1", DuelRoom)
  \/ \E s \in Duelists : JoinRoom(s, DuelRoom)
  \/ \E ref \in 1..Len(heap) : AutoStart(ref)
  \/ \E s \in Duelists : PlayerReady(s)
  \/ \E s \in Duelists, pos \in EdgePositions, vx \in EdgeVelocities :
        PlayerMove(s, pos, vx)
  \/ \E s \in Duelists : PlayerAttack(s)
  \/ \E ref \in 1..Len(heap), s \in Duelists : ClearAttack(ref, s)
  \/ Tick(attackCooldown)

SpecEdge == Init /\ [][NextEdge]_vars

\* The win check on its own: a game in progress whose players, at most
\* maxPlayers of them, have each taken no damage, 60 points or 100.
Wounds == {0, 60, 100}
Rosters ==
  {<<>>}
  \cup {<<applyDamage(createPlayer(s, 0), w)>> : s \in Sockets, w \in Wounds}
  \cup {<<applyDamage(createPlayer(s[1], 0), w[1]), applyDamage(createPlayer(s[2], 1), w[2])>> :
           s \in {q \in Sockets \X Sockets : q[1] # q[2]}, w \in Wounds \X Wounds}

InitEnd ==
  /\ \E roster \in Rosters :
       heap = <<[newRoom(DuelRoom) EXCEPT !.players = roster,
                                         !.currentPlayers = Len(roster),
                                         !.gameState = "in_progress",
                                         !.gameStartTime = StartTime]>>
  /\ gameRooms = <<<<DuelRoom, 1>>>>
  /\ connected = Sockets
  /\ timers = EmptyBag
  /\ now = StartTime
  /\ joins = 0
  /\ received = [ev |-> "none", sock |-> NULL]
  /\ emitted = <<>>

\* the win check that ends playerAttack, with its result
WinCheck(ref) ==
  LET winner == checkGameEnd(heap[ref].players) IN
  /\ received' = [ev |-> "checkGameEnd", sock |-> NULL, result |-> winner]
  /\ heap' = IF winner # NULL
             THEN [heap EXCEPT ![ref].gameState = "finished", ![ref].winner = winner]
             ELSE heap
  /\ emitted' = IF winner # NULL
                THEN <<ToRoom("gameEnded", heap[ref].id, <<winner>>)>>
                ELSE <<>>
  /\ UNCHANGED <<gameRooms, connected, timers, now, joins>>

NextEnd == \E ref \in 1..Len(heap) : WinCheck(ref)

SpecEnd == InitEnd /\ [][NextEnd]_vars

\* The lobby of one room where a place that a leaver frees is taken again:
\* one join more than fills the room.  Nobody moves or fights.
MaxRejoins == MaxJoins + 1

NextRejoin ==
  \/ heap = <<>> /\ CreateRoom("s1", DuelRoom)
  \/ \E s \in Sockets :
        (JoinAccepted(DuelRoom) => joins < MaxRejoins) /\ JoinRoom(s, DuelRoom)
  \/ \E ref \in 1..Len(heap) : AutoStart(ref)
  \/ \E s \in Sockets : LeaveRoom(s)

SpecRejoin == Init /\ [][NextRejoin]_vars

\* The duel on the TypeScript socket route: the second player walks up to
\* 60 px in front of the first, who faces right from its spawn point.
RoutePositions == {[x |-> 220, y |-> 150]}

NextRoute ==
  \/ heap = <<>> /\ CreateRoom("s1", DuelRoom)
  \/ \E s \in Duelists : RouteJoinRoom(s, DuelRoom)
  \/ \E ref \in 1..Len(heap) : AutoStart(ref)
  \/ \E s \in Duelists : PlayerReady(s)
  \/ \E s \in Movers, pos \in RoutePositions, vx \in MoveVelocities : RouteMove(s, pos, vx)
  \/ \E s \in Duelists : RouteAttack(s)
  \/ \E ref \in 1..Len(heap), s \in Duelists : ClearAttack(ref, s)
  \/ Tick(attackCooldown)

SpecRoute == Init /\ [][NextRoute]_vars

\* The lobby of two connections under the event loop's guarantee that a
\* scheduled setTimeout callback is eventually run.
NextLive ==
  \/ \E s \in Duelists, id \in RoomIds : Len(heap) < MaxRooms /\ CreateRoom(s, id)
  \/ \E s \in Duelists, id \in RoomIds :
        (JoinAccepted(id) => joins < MaxJoins) /\ JoinRoom(s, id)
  \/ \E ref \in 1..Len(heap) : AutoStart(ref)
  \/ \E s \in Duelists : PlayerReady(s)
  \/ \E s \in Duelists : LeaveRoom(s)

TimersRun == \A ref \in 1..MaxRooms : WF_vars(ref <= Len(heap) /\ AutoStart(ref))

SpecLive == Init /\ [][NextLive]_vars /\ TimersRun

\* The duel where players may leave, under the event loop's guarantee that
\* the attack reset callback is eventually run.
NextClear ==
  \/ heap = <<>> /\ CreateRoom("s1", DuelRoom)
  \/ \E s \in Duelists :
        (JoinAccepted(DuelRoom) => joins < MaxJoins) /\ JoinRoom(s, DuelRoom)
  \/ \E ref \in 1..Len(heap) : AutoStart(ref)
  \/ \E s \in Duelists : PlayerReady(s)
  \/ \E s \in Duelists : PlayerAttack(s)
  \/ \E ref \in 1..Len(heap), s \in Duelists : ClearAttack(ref, s)
  \/ \E s \in Duelists : LeaveRoom(s)
  \/ Tick(attackCooldown)

ClearsRun ==
  \A ref \in 1..MaxRooms : \A s \in Duelists :
     WF_vars(ref <= Len(heap) /\ ClearAttack(ref, s))

SpecClear == Init /\ [][NextClear]_vars /\ ClearsRun

\* The lobby with one room object more than MaxRooms, so that two rooms can
\* be registered at once and a room code can be generated twice.
MaxObjects == MaxRooms + 1

NextRooms ==
  \/ \E s \in Duelists, id \in RoomIds : Len(heap) < MaxObjects /\ CreateRoom(s, id)
  \/ \E s \in Duelists, id \in RoomIds :
        (JoinAccepted(id) => joins < MaxJoins) /\ JoinRoom(s, id)
  \/ \E ref \in 1..Len(heap) : AutoStart(ref)
  \/ \E s \in Duelists : LeaveRoom(s)
  \/ \E s \in Duelists : Disconnect(s)

SpecRooms == Init /\ [][NextRooms]_vars

\* The arena where either player may ask for the items lying at a weapon
\* spawn point, 50 px from the first player's start and 450 px from the
\* second's.
NextEquip ==
  \/ heap = <<>> /\ CreateRoom("s1", DuelRoom)
  \/ \E s \in Duelists : JoinRoom(s, DuelRoom)
  \/ \E ref \in 1..Len(heap) : AutoStart(ref)
  \/ \E s \in Droppers, item \in Gear : ItemDropped(s, item)
  \/ \E s \in Duelists, item \in Gear : PickupItem(s, item.id)
  \/ \E s \in Duelists, item \in Gear, slot \in Slots : EquipItem(s, item.id, slot)

SpecEquip == Init /\ [][NextEquip]_vars

\* ---------------------------------------------------------------- properties
\* the room the sender of the next event is found in, before the event is handled
SenderRoom == findPlayerRoom(received'.sock)

AliveIds(room) ==
  {room.players[i].id : i \in {j \in 1..Len(room.players) : room.players[j].isAlive}}

LeaveEvents == {"leaveRoom", "disconnect"}

\* C1: once a room's gameState is FINISHED no step changes it again, whatever
\* client event or timer callback the step is.
C1_FinishedIsFinal ==
  [][\A ref \in 1..Len(heap) :
        heap[ref].gameState = "finished" => heap'[ref].gameState = "finished"]_vars

C3_HealthInRange ==
  \A ref \in 1..Len(heap) : \A i \in 1..Len(heap[ref].players) :
     LET p == heap[ref].players[i]
     IN /\ p.health >= 0
        /\ p.health <= maxHealth
        /\ p.isAlive <=> p.health > 0

\* C4: a playerAttack event in an IN_PROGRESS room after which exactly one player
\* of the room is alive ends with the room FINISHED, that player as winner, and
\* gameEnded broadcast to the room with that player's id.
C4_SoleSurvivorWins ==
  [][\A ref \in 1..Len(heap) :
        ( /\ received'.ev = "playerAttack"
          /\ SenderRoom = ref
          /\ heap[ref].gameState = "in_progress"
          /\ Cardinality(AliveIds(heap'[ref])) = 1 )
        => /\ heap'[ref].gameState = "finished"
           /\ heap'[ref].winner \in AliveIds(heap'[ref])
           /\ \E i \in 1..Len(emitted') :
                emitted'[i] = ToRoom("gameEnded", heap[ref].id, <<heap'[ref].winner>>)]_vars

\* C5: a playerMove or playerAttack from a connection whose room is not
\* IN_PROGRESS, or whose player is not alive, changes no room, schedules
\* nothing and emits nothing.
C5_IgnoredOutsidePlay ==
  [][( /\ received'.ev \in {"playerMove", "playerAttack"}
       /\ SenderRoom # NoRef
       /\ \/ heap[SenderRoom].gameState # "in_progress"
          \/ ~GetPlayer(heap[SenderRoom], received'.sock).isAlive )
     => /\ heap' = heap
        /\ gameRooms' = gameRooms
        /\ timers' = timers
        /\ emitted' = <<>>]_vars

\* a player of a FINISHED room has just sent a playerMove
C5_MoveAfterTheEnd ==
  /\ received.ev = "playerMove"
  /\ findPlayerRoom(received.sock) # NoRef
  /\ heap[findPlayerRoom(received.sock)].gameState = "finished"
  /\ emitted = <<>>

\* C6: a playerAttack less than attackCooldown after the sender's last accepted
\* attack changes no player's health or position, leaves the sender's
\* lastAttackTime and isAttacking alone and broadcasts neither playerAttacked
\* nor playerHealthChanged.
C6_CooldownBlocksAttack ==
  [][( /\ received'.ev = "playerAttack"
       /\ SenderRoom # NoRef
       /\ GetPlayer(heap[SenderRoom], received'.sock).lastAttackTime > 0
       /\ now - GetPlayer(heap[SenderRoom], received'.sock).lastAttackTime
            < attackCooldown )
     => /\ \A ref \in 1..Len(heap) :
             /\ Len(heap'[ref].players) = Len(heap[ref].players)
             /\ \A i \in 1..Len(heap[ref].players) :
                  /\ heap'[ref].players[i].health = heap[ref].players[i].health
                  /\ heap'[ref].players[i].position = heap[ref].players[i].position
        /\ GetPlayer(heap'[SenderRoom], received'.sock).lastAttackTime
             = GetPlayer(heap[SenderRoom], received'.sock).lastAttackTime
        /\ GetPlayer(heap'[SenderRoom], received'.sock).isAttacking
             = GetPlayer(heap[SenderRoom], received'.sock).isAttacking
        /\ \A i \in 1..Len(emitted') :
             emitted'[i].ev \notin {"playerAttacked", "playerHealthChanged"}]_vars

\* a living player of a running game has just attacked again half a cooldown
\* after an accepted attack
C6_AttackDuringCooldown ==
  /\ received.ev = "playerAttack"
  /\ findPlayerRoom(received.sock) # NoRef
  /\ LET room == heap[findPlayerRoom(received.sock)]
         p == GetPlayer(room, received.sock)
     IN /\ room.gameState = "in_progress"
        /\ p.isAlive
        /\ now - p.lastAttackTime > 0
        /\ now - p.lastAttackTime < attackCooldown
        /\ emitted = <<>>

\* C7: a leaveRoom or disconnect from an IN_PROGRESS room leaves the room
\* FINISHED with the remaining player as winner when a player remains, and
\* removes the room from the registry when the leaver was the last one.
C7_LeaverHandsOverOrRoomGoes ==
  [][\A ref \in 1..Len(heap) :
        ( /\ received'.ev \in LeaveEvents
          /\ SenderRoom = ref
          /\ heap[ref].gameState = "in_progress" )
        => IF Len(heap'[ref].players) > 0
           THEN /\ heap'[ref].gameState = "finished"
                /\ \E i \in 1..Len(heap'[ref].players) :
                     heap'[ref].winner = heap'[ref].players[i].id
           ELSE \A i \in 1..Len(gameRooms') : gameRooms'[i][2] # ref]_vars

\* C8: a leaveRoom or disconnect that removes the last entry of a room's players
\* map leaves that room out of gameRooms.
C8_EmptiedRoomIsRemoved ==
  [][\A ref \in 1..Len(heap) :
        ( /\ received'.ev \in LeaveEvents
          /\ SenderRoom = ref
          /\ Len(heap'[ref].players) = 0 )
        => \A i \in 1..Len(gameRooms') : gameRooms'[i][2] # ref]_vars

\* C9: joinRoom with an unknown room id answers roomNotFound and joinRoom on a
\* room at capacity answers roomFull; no room changes, the registry does not
\* change and no timer is scheduled.
C9_RejectedJoinChangesNothing ==
  [][received'.ev = "joinRoom" =>
       LET ref == MapGet(received'.room) IN
       /\ ref = NoRef =>
            /\ emitted' = <<ToSocket("roomNotFound", received'.sock, <<>>)>>
            /\ UNCHANGED <<heap, gameRooms, timers>>
       /\ (ref # NoRef /\ heap[ref].currentPlayers >= maxPlayers) =>
            /\ emitted' = <<ToSocket("roomFull", received'.sock, <<>>)>>
            /\ UNCHANGED <<heap, gameRooms, timers>>]_vars

\* a join has just been answered roomFull by a room that has started its timer
C9_JoinTurnedAway ==
  /\ received.ev = "joinRoom"
  /\ emitted = <<ToSocket("roomFull", received.sock, <<>>)>>
  /\ MapGet(received.room) # NoRef
  /\ heap[MapGet(received.room)].currentPlayers = maxPlayers
  /\ BagIn(StartTimer(MapGet(received.room)), timers)

\* C10: a room goes from WAITING to READY only in a joinRoom event after which
\* it has two players, with gameStateChanged(READY) broadcast in that event, and
\* a room in WAITING never has two players.
C10_ReadyOnSecondPlayer ==
  [][\A ref \in 1..Len(heap) :
        /\ (heap[ref].gameState = "waiting" /\ heap'[ref].gameState = "ready")
             => /\ received'.ev = "joinRoom"
                /\ Len(heap'[ref].players) = maxPlayers
                /\ \E i \in 1..Len(emitted') :
                     emitted'[i] = ToRoom("gameStateChanged", heap[ref].id, <<"ready">>)
        /\ heap'[ref].gameState = "waiting"
             => Len(heap'[ref].players) < maxPlayers]_vars

\* C11: a room that two players have joined eventually is IN_PROGRESS, unless
\* one of them leaves first, even when no client ever sends playerReady.
C11_TwoPlayersEventuallyPlay ==
  \A ref \in 1..MaxRooms :
     (ref <= Len(heap) /\ Len(heap[ref].players) = maxPlayers)
       ~> (/\ ref <= Len(heap)
           /\ \/ heap[ref].gameState = "in_progress"
              \/ Len(heap[ref].players) < maxPlayers)

\* the auto-start callback has just started a room that holds two players
C11_StartedByTimer ==
  /\ received.ev = "autoStart"
  /\ \E ref \in 1..Len(heap) :
       /\ Len(heap[ref].players) = maxPlayers
       /\ heap[ref].gameState = "in_progress"
       /\ heap[ref].gameStartTime = now

\* C12: a playerReady from one player of a READY room does not start the game:
\* when the room has only just become READY (the last event was the join that
\* filled it), the first playerReady leaves it READY.
C12_OneReadyDoesNotStart ==
  [][\A ref \in 1..Len(heap) :
        ( /\ received.ev = "joinRoom"
          /\ received'.ev = "playerReady"
          /\ SenderRoom = ref
          /\ Len(heap[ref].players) = maxPlayers
          /\ heap[ref].gameState = "ready" )
        => heap'[ref].gameState = "ready"]_vars

\* C13: when the auto-start callback of a room fires and the room is no longer
\* registered or no longer READY, the firing changes no room and broadcasts
\* nothing.
C13_StaleStartTimerIsInert ==
  [][\A ref \in 1..Len(heap) :
        ( /\ received'.ev = "autoStart"
          /\ CopiesIn(StartTimer(ref), timers') < CopiesIn(StartTimer(ref), timers)
          /\ (~Registered(ref) \/ heap[ref].gameState # "ready") )
        => /\ heap' = heap
           /\ emitted' = <<>>]_vars

\* the ids of the items the players of a room have equipped
EquippedIds(room) ==
  ({room.players[i].equippedWeapon.id : i \in 1..Len(room.players)}
     \cup {room.players[i].equippedShield.id : i \in 1..Len(room.players)})
    \ {NoItem.id}

\* C14: an item id a player has taken from droppedItems never comes back into
\* droppedItems, and no two players hold an item with the same id.
C14_TransferredIdNeverReturns ==
  [][\A ref \in 1..Len(heap) :
        /\ \A id \in EquippedIds(heap[ref]) :
              id \notin ItemIds(heap[ref]) => id \notin ItemIds(heap'[ref])
        /\ \A i, j \in 1..Len(heap'[ref].players) :
              ( /\ i # j
                /\ heap'[ref].players[i].equippedWeapon.id # NoItem.id )
              => heap'[ref].players[i].equippedWeapon.id
                   # heap'[ref].players[j].equippedWeapon.id]_vars

\* C15: in every reachable state no player's equipped weapon or shield is a key
\* of the room's droppedItems.
C15_EquippedNotOnGround ==
  \A ref \in 1..Len(heap) : EquippedIds(heap[ref]) \cap ItemIds(heap[ref]) = {}

\* C16: pickupItem or equipItem naming an id that is not in the droppedItems of
\* the sender's room changes no room, schedules nothing and emits nothing; so
\* does a repeat of a pickup that succeeded.
C16_AbsentItemIsNoOp ==
  [][( /\ received'.ev \in {"pickupItem", "equipItem"}
       /\ SenderRoom # NoRef
       /\ received'.item \notin ItemIds(heap[SenderRoom]) )
     => /\ heap' = heap
        /\ gameRooms' = gameRooms
        /\ timers' = timers
        /\ emitted' = <<>>]_vars

\* a player holding the blade has just asked to pick the blade up again
C16_PickupRepeated ==
  /\ received.ev = "pickupItem"
  /\ findPlayerRoom(received.sock) # NoRef
  /\ LET room == heap[findPlayerRoom(received.sock)]
     IN /\ GetPlayer(room, received.sock).equippedWeapon.id = received.item
        /\ received.item \notin ItemIds(room)
        /\ emitted = <<>>

\* the weapons on the ground of a room
GroundWeapons(room) ==
  {room.droppedItems[i] : i \in {j \in 1..Len(room.droppedItems) :
                                    room.droppedItems[j].type = "weapon"}}

\* C17: after a playerMove of a living player of an IN_PROGRESS room, every
\* ground weapon within the auto-pickup radius of the player's new position is
\* the player's equippedWeapon, attackDamage is the base plus the weapon's
\* bonus, attackRange is the weapon's range when it has one, and the weapon is
\* off the ground.
C17_AutoPickupEquipsWeapon ==
  [][\A ref \in 1..Len(heap) :
        ( /\ received'.ev = "playerMove"
          /\ SenderRoom = ref
          /\ heap[ref].gameState = "in_progress"
          /\ GetPlayer(heap[ref], received'.sock).isAlive )
        => LET after == GetPlayer(heap'[ref], received'.sock) IN
           \A item \in GroundWeapons(heap[ref]) :
              Dist2(after.position, item.position) <= autoPickupRadius * autoPickupRadius
              => /\ after.equippedWeapon = item
                 /\ after.attackDamage = attackDamage + item.attack
                 /\ item.range # 0 => after.attackRange = item.range
                 /\ item.id \notin ItemIds(heap'[ref])]_vars

\* the ground weapons of a room within the auto-pickup radius of a position,
\* in the order of droppedItems
WeaponsInReach(room, position) ==
  SelectSeq(room.droppedItems,
            LAMBDA it : /\ it.type = "weapon"
                        /\ Dist2(position, it.position)
                             <= autoPickupRadius * autoPickupRadius)

\* C17 (amended): after a playerMove of a living player of an IN_PROGRESS room
\* that ends within the auto-pickup radius of ground weapons, the player's
\* equippedWeapon is the last of them in droppedItems order, attackDamage is
\* the base plus that weapon's bonus, attackRange is that weapon's range when
\* it has one, and every one of them is off the ground.
C17_AutoPickupEquipsLastWeapon ==
  [][\A ref \in 1..Len(heap) :
        ( /\ received'.ev = "playerMove"
          /\ SenderRoom = ref
          /\ heap[ref].gameState = "in_progress"
          /\ GetPlayer(heap[ref], received'.sock).isAlive )
        => LET after == GetPlayer(heap'[ref], received'.sock)
               reach == WeaponsInReach(heap[ref], after.position)
           IN reach # <<>> =>
                LET item == reach[Len(reach)] IN
                /\ after.equippedWeapon = item
                /\ after.attackDamage = attackDamage + item.attack
                /\ item.range # 0 => after.attackRange = item.range
                /\ \A i \in 1..Len(reach) : reach[i].id \notin ItemIds(heap'[ref])]_vars

\* a move has just swept up the blade and then the sword
C17_TwoWeaponsSwept ==
  /\ received.ev = "playerMove"
  /\ findPlayerRoom(received.sock) # NoRef
  /\ LET room == heap[findPlayerRoom(received.sock)]
         p == GetPlayer(room, received.sock)
     IN /\ p.equippedWeapon = Sword
        /\ p.attackDamage = attackDamage + Sword.attack
        /\ room.droppedItems = <<>>
        /\ \E i, j \in 1..Len(emitted) :
             /\ i < j
             /\ emitted[i] = ToRoom("itemEquipped", room.id, <<p.id, Blade.id>>)
             /\ emitted[j] = ToRoom("itemEquipped", room.id, <<p.id, Sword.id>>)

\* C18: after a playerMove of a living player of an IN_PROGRESS room, a ground
\* shield within the auto-pickup radius of the new position is the player's
\* equippedShield with defense set to the shield's, a ground consumable within
\* the radius has had its heal and speed effect applied, and no item has left
\* the ground without its effect.
C18_AutoPickupAppliesEveryEffect ==
  [][\A ref \in 1..Len(heap) :
        ( /\ received'.ev = "playerMove"
          /\ SenderRoom = ref
          /\ heap[ref].gameState = "in_progress"
          /\ GetPlayer(heap[ref], received'.sock).isAlive )
        => LET before == GetPlayer(heap[ref], received'.sock)
               after == GetPlayer(heap'[ref], received'.sock)
           IN \A i \in 1..Len(heap[ref].droppedItems) :
                LET item == heap[ref].droppedItems[i] IN
                item.id \notin ItemIds(heap'[ref])
                => /\ item.type = "shield"
                        => /\ after.equippedShield = item
                           /\ after.defense = item.defense
                   /\ (item.type = "consumable" /\ item.heal # 0)
                        => after.health = Min(maxHealth, before.health + item.heal)
                   /\ (item.type = "consumable" /\ item.speedBoost # 0)
                        => after.moveSpeedMultiplier = item.speedBoost]_vars

\* C19: a pickupItem for an item on the ground farther from the sender than the
\* manual pickup radius changes nothing; within the radius the item leaves the
\* ground and the sender ends up as auto-pickup of that item would leave them.
C19_ManualPickupGatedSameEffects ==
  [][\A ref \in 1..Len(heap) :
        ( /\ received'.ev = "pickupItem"
          /\ SenderRoom = ref
          /\ HasItem(heap[ref], received'.item)
          /\ GetPlayer(heap[ref], received'.sock).isAlive )
        => LET s == received'.sock
               item == GetItem(heap[ref], received'.item)
               alone == [heap[ref] EXCEPT !.droppedItems = <<item>>]
           IN IF Dist2(GetPlayer(heap[ref], s).position, item.position)
                   > pickupRadius * pickupRadius
              THEN heap'[ref] = heap[ref]
              ELSE /\ item.id \notin ItemIds(heap'[ref])
                   /\ GetPlayer(heap'[ref], s)
                        = GetPlayer(checkForAutoPickup(s, alone).room, s)]_vars

\* C20: when an accepted attack hits a living target, the target's health
\* drops by max(1, attacker's damage - target's defense), not below 0, and
\* playerHealthChanged with the target's new health is broadcast to the room
\* in the same event.
C20_HitDamage ==
  [][\A ref \in 1..Len(heap) :
        ( /\ received'.ev = "playerAttack"
          /\ SenderRoom = ref
          /\ heap[ref].gameState = "in_progress"
          /\ GetPlayer(heap[ref], received'.sock).isAlive
          /\ now - GetPlayer(heap[ref], received'.sock).lastAttackTime >= attackCooldown )
        => LET attacker == GetPlayer(heap[ref], received'.sock) IN
           \A i \in 1..Len(heap[ref].players) :
              LET target == heap[ref].players[i]
                  dealt == IF attacker.attackDamage - target.defense > 1
                           THEN attacker.attackDamage - target.defense ELSE 1
                  left == IF target.health - dealt > 0 THEN target.health - dealt ELSE 0
              IN ( /\ target.id # attacker.id
                   /\ target.isAlive
                   /\ checkAttackHit(attacker, target) )
                 => /\ GetPlayer(heap'[ref], target.id).health = left
                    /\ \E k \in 1..Len(emitted') :
                         emitted'[k] = ToRoom("playerHealthChanged", heap[ref].id,
                                              <<target.id, left>>)]_vars

\* a hit has just been softened by the target's shield
C20_ShieldedHit ==
  /\ received.ev = "playerAttack"
  /\ \E ref \in 1..Len(heap) : \E i \in 1..Len(heap[ref].players) :
       LET target == heap[ref].players[i] IN
       /\ target.defense > 0
       /\ target.health < maxHealth
       /\ \E k \in 1..Len(emitted) :
            emitted[k] = ToRoom("playerHealthChanged", heap[ref].id,
                                <<target.id, target.health>>)

\* C21: when the reset of an earlier speed pickup runs while a later pickup's
\* reset is still pending and due later, the player's moveSpeedMultiplier
\* keeps its boosted value: it is not put back to 1.0 during the later boost.
C21_EarlierResetKeepsLaterBoost ==
  [][\A ref \in 1..Len(heap) : \A s \in Sockets :
        ( /\ received'.ev = "speedReset"
          /\ received'.sock = s
          /\ HasPlayer(heap[ref], s)
          /\ \E t \in BagToSet(timers) : \E u \in BagToSet(timers') :
                /\ t \in SpeedTimers(ref, s)
                /\ CopiesIn(t, timers') < CopiesIn(t, timers)
                /\ u.kind = "speed" /\ u.room = ref /\ u.sock = s
                /\ u.at > t.at
                /\ u.at + u.delay > t.at + t.delay )
        => GetPlayer(heap'[ref], s).moveSpeedMultiplier
             = GetPlayer(heap[ref], s).moveSpeedMultiplier]_vars

\* C22: in every reachable state every player's position.x lies within
\* [playerWidth/2, canvasWidth - playerWidth/2], also after the knockback of
\* a target hit near an arena edge.
C22_PositionInArena ==
  \A ref \in 1..Len(heap) : \A i \in 1..Len(heap[ref].players) :
     /\ heap[ref].players[i].position.x >= playerWidth \div 2
     /\ heap[ref].players[i].position.x <= canvasWidth - playerWidth \div 2

RoomEvents ==
  {"joinRoom", "leaveRoom", "disconnect", "playerMove", "playerAttack",
   "playerReady", "itemDropped", "pickupItem", "equipItem"}

\* C23: every client event that changes a room's state broadcasts a
\* gameUpdate to that room within the same event.
C23_ChangeBroadcastsGameUpdate ==
  [][\A ref \in 1..Len(heap) :
        (received'.ev \in RoomEvents /\ heap'[ref] # heap[ref])
        => \E k \in 1..Len(emitted') :
              emitted'[k] = ToRoom("gameUpdate", heap[ref].id, <<>>)]_vars

\* C24: the win check returns 'draw', not a player's id, whenever no player
\* of the room is alive, and returns no winner while two or more are alive.
C24_DrawWhenNobodyAlive ==
  \A ref \in 1..Len(heap) :
     received.ev = "checkGameEnd"
     => /\ AliveIds(heap[ref]) = {} => received.result = "draw"
        /\ Cardinality(AliveIds(heap[ref])) >= 2 => received.result = NULL

\* the win check has run on a room whose two players are both dead
C24_BothDead ==
  /\ received.ev = "checkGameEnd"
  /\ \E ref \in 1..Len(heap) :
       /\ Len(heap[ref].players) = maxPlayers
       /\ AliveIds(heap[ref]) = {}
       /\ heap[ref].winner = "draw"

\* C25: a room's winner is assigned at most once: once set it keeps its value
\* under every later event and timer callback, and a winner is set only
\* while gameState is FINISHED.
C25_WinnerSetOnce ==
  [][\A ref \in 1..Len(heap) :
        /\ heap[ref].winner # NULL => heap'[ref].winner = heap[ref].winner
        /\ heap'[ref].winner # NULL => heap'[ref].gameState = "finished"]_vars

\* C26: two players present in a room, neither having moved since joining,
\* stand one at the left spawn position and one at the right, also when one
\* of them joined after an earlier member had left.
C26_OppositeSpawns ==
  \A ref \in 1..Len(heap) :
     Len(heap[ref].players) = 2
     => {heap[ref].players[i].position.x : i \in 1..2}
          = {canvasWidth \div 4, (3 * canvasWidth) \div 4}

\* C27: whenever a room's gameState is READY the room holds exactly
\* maxPlayers players and an auto-start timer for it is pending; a room that
\* loses a player while READY does not stay READY.
C27_ReadyMeansFullAndTimed ==
  \A ref \in 1..Len(heap) :
     heap[ref].gameState = "ready"
     => /\ Len(heap[ref].players) = maxPlayers
        /\ BagIn(StartTimer(ref), timers)

\* C28: an accepted attack knocks a hit target back even when the hit brings
\* its health to 0, and the damage is that of the target's state before the
\* knockback: afterwards the stored target has both the reduced health and a
\* position.x moved knockbackX further from the attacker.
C28_KnockbackEvenWhenKilled ==
  [][\A ref \in 1..Len(heap) :
        ( /\ received'.ev = "playerAttack"
          /\ SenderRoom = ref
          /\ heap[ref].gameState = "in_progress"
          /\ GetPlayer(heap[ref], received'.sock).isAlive
          /\ now - GetPlayer(heap[ref], received'.sock).lastAttackTime >= attackCooldown )
        => LET attacker == GetPlayer(heap[ref], received'.sock) IN
           \A i \in 1..Len(heap[ref].players) :
              LET target == heap[ref].players[i]
                  after == GetPlayer(heap'[ref], target.id)
                  dealt == IF attacker.attackDamage - target.defense > 1
                           THEN attacker.attackDamage - target.defense ELSE 1
              IN ( /\ target.id # attacker.id
                   /\ target.isAlive
                   /\ checkAttackHit(attacker, target) )
                 => /\ after.health < target.health
                    /\ after.health = (IF target.health > dealt
                                       THEN target.health - dealt ELSE 0)
                    /\ Abs(after.position.x - attacker.position.x)
                         = Abs(target.position.x - attacker.position.x) + knockbackX]_vars

\* a hit has just killed its target and pushed it away from where it stood
C28_KilledAndKnocked ==
  /\ received.ev = "playerAttack"
  /\ \E ref \in 1..Len(heap) : \E i \in 1..Len(heap[ref].players) :
       LET target == heap[ref].players[i] IN
       /\ target.health = 0
       /\ ~target.isAlive
       /\ target.position.x > (3 * canvasWidth) \div 4
       /\ \E k \in 1..Len(emitted) :
            emitted[k] = ToRoom("playerHealthChanged", heap[ref].id, <<target.id, 0>>)

\* the rectangle in front of the attacker, as wide as its current attackRange
Reach(attacker) ==
  [x |-> IF attacker.facingDirection = "right"
         THEN attacker.position.x + playerWidth \div 2
         ELSE attacker.position.x - attacker.attackRange - playerWidth \div 2,
   y |-> attacker.position.y,
   width |-> attacker.attackRange,
   height |-> playerHeight]

\* C29: an attack damages a target only if the target's bounding box
\* overlaps the attacker's reach rectangle, placed in front of the attacker
\* according to facingDirection and as wide as the attacker's attackRange: a
\* target behind the attacker is never hit.
C29_OnlyHitsInFront ==
  [][\A ref \in 1..Len(heap) :
        (received'.ev = "playerAttack" /\ SenderRoom = ref)
        => LET attacker == GetPlayer(heap[ref], received'.sock) IN
           \A i \in 1..Len(heap[ref].players) :
              LET target == heap[ref].players[i] IN
              GetPlayer(heap'[ref], target.id).health < target.health
              => checkCollision(Reach(attacker), getTargetHitbox(target))]_vars

\* C30: on the TypeScript socket route, a playerAttack by an alive attacker
\* whose cooldown has elapsed and whose isAttacking flag was false before the
\* event, with an alive target inside the attack hitbox, reduces the target's
\* health by attackDamage and names that target in playerAttacked.
C30_RouteAttackHits ==
  [][\A ref \in 1..Len(heap) :
        ( /\ received'.ev = "playerAttack"
          /\ SenderRoom = ref
          /\ heap[ref].gameState = "in_progress"
          /\ GetPlayer(heap[ref], received'.sock).isAlive
          /\ now - GetPlayer(heap[ref], received'.sock).lastAttackTime >= attackCooldown
          /\ ~GetPlayer(heap[ref], received'.sock).isAttacking )
        => LET attacker == GetPlayer(heap[ref], received'.sock) IN
           \A i \in 1..Len(heap[ref].players) :
              LET target == heap[ref].players[i] IN
              ( /\ target.id # attacker.id
                /\ target.isAlive
                /\ checkCollision(getAttackHitbox(attacker), getTargetHitbox(target)) )
              => /\ GetPlayer(heap'[ref], target.id).health
                      = (IF target.health > attackDamage
                         THEN target.health - attackDamage ELSE 0)
                 /\ \E k \in 1..Len(emitted') :
                      emitted'[k] = ToRoom("playerAttacked", heap[ref].id,
                                           <<attacker.id, target.id>>)]_vars

\* C31: after every accepted attack the attacker's isAttacking flag
\* eventually is false again unless the attacker is gone from the room, also
\* when the attack ended the game; a reset that fires for an attacker who has
\* left changes no room and emits nothing.
C31_AttackFlagClears ==
  /\ \A ref \in 1..MaxRooms : \A s \in Duelists :
        (ref <= Len(heap) /\ HasPlayer(heap[ref], s) /\ GetPlayer(heap[ref], s).isAttacking)
        ~> (ref <= Len(heap)
            /\ (HasPlayer(heap[ref], s) => ~GetPlayer(heap[ref], s).isAttacking))
  /\ [][\A ref \in 1..Len(heap) :
          ( /\ received'.ev = "attackReset"
            /\ CopiesIn(ClearTimer(ref, received'.sock), timers')
                 < CopiesIn(ClearTimer(ref, received'.sock), timers)
            /\ ~HasPlayer(heap[ref], received'.sock) )
          => heap' = heap /\ emitted' = <<>>]_vars

\* the reset has run for an attacker who is still in the room after the
\* game has ended with that attacker as the winner
C31_ClearedAfterTheEnd ==
  /\ received.ev = "attackReset"
  /\ \E ref \in 1..Len(heap) :
       /\ heap[ref].gameState = "finished"
       /\ heap[ref].winner = received.sock
       /\ HasPlayer(heap[ref], received.sock)
       /\ GetPlayer(heap[ref], received.sock).lastAttackTime >= StartTime
       /\ ~GetPlayer(heap[ref], received.sock).isAttacking

\* C32: in every reachable state each room's currentPlayers counter equals
\* the number of entries of its players map, also when one connection sends
\* joinRoom for the same room more than once.
C32_CounterMatchesEntries ==
  \A ref \in 1..Len(heap) : heap[ref].currentPlayers = Len(heap[ref].players)

\* the registered rooms whose players map has the key s
RoomsOf(s) == {i \in 1..Len(gameRooms) : HasPlayer(heap[gameRooms[i][2]], s)}

\* C33: a connection id is a key of at most one room's players map at any
\* time, and once the connection has disconnected it is a key of none.
C33_InOneRoomAtMost ==
  \A s \in Sockets :
     /\ Cardinality(RoomsOf(s)) <= 1
     /\ s \notin connected => RoomsOf(s) = {}

\* C39: createRoom never replaces a registered room: after createRoom every
\* room that was registered is still in gameRooms, the same object with its
\* players, items and state unchanged, even when the generated id equals an
\* existing room's id.
C39_CreateKeepsRooms ==
  [][received'.ev = "createRoom"
       => \A i \in 1..Len(gameRooms) :
             /\ \E j \in 1..Len(gameRooms') : gameRooms'[j] = gameRooms[i]
             /\ heap'[gameRooms[i][2]] = heap[gameRooms[i][2]]]_vars

\* C34: whenever a room's gameState is IN_PROGRESS the room holds exactly
\* two players and both are alive.
C34_PlayingMeansTwoAlive ==
  \A ref \in 1..Len(heap) :
     heap[ref].gameState = "in_progress"
     => /\ Len(heap[ref].players) = 2
        /\ \A i \in 1..Len(heap[ref].players) : heap[ref].players[i].isAlive

\* C35: gameStarted is broadcast at most once per room: once a room has
\* started, no later step, the auto-start callback included, broadcasts
\* gameStarted for it again or overwrites its gameStartTime, and a room never
\* has more than one auto-start timer pending.
C35_StartedOnce ==
  [][\A ref \in 1..Len(heap) :
        /\ heap[ref].gameStartTime # NoTime
             => /\ heap'[ref].gameStartTime = heap[ref].gameStartTime
                /\ \A k \in 1..Len(emitted') :
                      emitted'[k] # ToRoom("gameStarted", heap[ref].id, <<>>)
        /\ CopiesIn(StartTimer(ref), timers') <= 1]_vars

\* C36: an accepted attack never damages the attacker, who is still alive
\* after it; a winner that an attack records is the id of a player of the
\* room and never 'draw'.
C36_AttackerSurvivesAndWins ==
  [][\A ref \in 1..Len(heap) :
        ( /\ received'.ev = "playerAttack"
          /\ SenderRoom = ref
          /\ heap[ref].gameState = "in_progress"
          /\ GetPlayer(heap[ref], received'.sock).isAlive
          /\ now - GetPlayer(heap[ref], received'.sock).lastAttackTime >= attackCooldown )
        => /\ GetPlayer(heap'[ref], received'.sock).health
                = GetPlayer(heap[ref], received'.sock).health
           /\ GetPlayer(heap'[ref], received'.sock).isAlive
           /\ heap'[ref].gameState = "finished"
                => /\ heap'[ref].winner \in PlayerIds(heap'[ref])
                   /\ heap'[ref].winner # "draw"
                   /\ \E k \in 1..Len(emitted') :
                        emitted'[k] = ToRoom("gameEnded", heap[ref].id,
                                             <<heap'[ref].winner>>)]_vars

\* an attack has just killed the other player and made the attacker the winner
C36_WonByKill ==
  /\ received.ev = "playerAttack"
  /\ \E ref \in 1..Len(heap) :
       /\ heap[ref].gameState = "finished"
       /\ heap[ref].winner = received.sock
       /\ Len(heap[ref].players) = maxPlayers
       /\ AliveIds(heap[ref]) = {received.sock}
       /\ \E k \in 1..Len(emitted) :
            emitted[k] = ToRoom("gameEnded", heap[ref].id, <<received.sock>>)

TransferEvents == {"pickupItem", "equipItem", "playerMove"}

\* C37: a ground item is transferred to a player only if that player is
\* within the pickup radius of the item's position at the time of the event
\* (pickupRadius for pickupItem and equipItem, autoPickupRadius after a move).
C37_TransferOnlyInReach ==
  [][\A ref \in 1..Len(heap) :
        (received'.ev \in TransferEvents /\ SenderRoom = ref)
        => \A i \in 1..Len(heap[ref].droppedItems) :
              LET item == heap[ref].droppedItems[i]
                  radius == IF received'.ev = "playerMove"
                            THEN autoPickupRadius ELSE pickupRadius
              IN ~HasItem(heap'[ref], item.id)
                 => Dist2(GetPlayer(heap'[ref], received'.sock).position, item.position)
                      <= radius * radius]_vars

\* a player's health, equipment and combat stats
Stats(p) ==
  <<p.health, p.isAlive, p.equippedWeapon, p.equippedShield,
    p.attackDamage, p.attackRange, p.defense, p.moveSpeedMultiplier>>

\* C38: once a room is FINISHED no step changes a player's health, equipment
\* or combat stats or an entry of droppedItems: itemDropped, pickupItem and
\* equipItem are ignored in a finished room like move and attack.
C38_FinishedRoomIsFrozen ==
  [][\A ref \in 1..Len(heap) :
        heap[ref].gameState = "finished"
        => /\ heap'[ref].droppedItems = heap[ref].droppedItems
           /\ \A s \in PlayerIds(heap[ref]) \cap PlayerIds(heap'[ref]) :
                 Stats(GetPlayer(heap'[ref], s)) = Stats(GetPlayer(heap[ref], s))]_vars

\* C40: leaving is idempotent: a leaveRoom or disconnect that directly
\* follows a leaveRoom of the same connection, or that comes from a
\* connection that is in no room, changes no room and the registry and
\* broadcasts nothing.
C40_SecondLeaveIsNoOp ==
  [][( /\ received'.ev \in LeaveEvents
       /\ \/ received.ev = "leaveRoom" /\ received.sock = received'.sock
          \/ SenderRoom = NoRef )
     => /\ heap' = heap
        /\ gameRooms' = gameRooms
        /\ emitted' = <<>>]_vars
====
